---- MODULE Spec2Model ----
(***************************************************************************)
(* ytcapture: frame deduplication (dedup.py), transcript alignment         *)
(* (markdown.py), transcript choice (transcript.py), AI titles             *)
(* (titling.py), frame collection (frames.py), the config cache            *)
(* (config.py) and the console commands (cli.py).                          *)
(*                                                                         *)
(* The specifications share the variables below; each leaves the           *)
(* variables of the other components at rest:                              *)
(*   Spec           process_video hands the extracted frames and the       *)
(*                  dedup threshold on, deduplicate_frames scans them one  *)
(*                  loop iteration per step;                               *)
(*   SpecAlign      align_transcript_to_frames, one iteration of its       *)
(*                  frame loop per step;                                   *)
(*   SpecTranscript get_transcript;                                        *)
(*   SpecTitle      generate_ai_title;                                     *)
(*   SpecCli        main and vidcapture_main, one item of the batch loop   *)
(*                  per step;                                              *)
(*   SpecConfig     calls of get_config_for_defaults,                      *)
(*                  config_was_auto_created and clear_config_cache;        *)
(*   SpecExtract    the collection loop of extract_frames_stream and       *)
(*                  extract_frames_with_timestamps;                        *)
(*   SpecLocal      process_local_video choosing its images directory.     *)
(*                                                                         *)
(* Encodings.  Python's None / "raised" is the empty sequence, a present   *)
(* value x is <<x>>.  A perceptual hash is the set of positions of its     *)
(* set bits in the flattened 8x8 boolean array.  A threshold is an integer *)
(* number of hundredths (85 is 0.85); a similarity is an integer number of *)
(* 64ths.  1.0 - d/64.0 is exact in binary floating point, and a threshold *)
(* t/100 is either itself a multiple of 1/64 (and then exact too) or at    *)
(* least 1/6400 away from every similarity, so the float comparison of the *)
(* source and the rational comparison here agree.                          *)
(***************************************************************************)
EXTENDS Integers, Sequences, FiniteSets, TLC

VARIABLES
    pc,            \* position of the modelled call
    frames,        \* list[FrameInfo]: the input frames
    phash,         \* path -> outcome of compute_phash on that file
    no_dedup,      \* CLI flag --no-dedup
    dedup_threshold, \* CLI option --dedup-threshold (hundredths)
    threshold,     \* the threshold handed to the deduplicator (None or value)
    delete_files,  \* argument delete_files
    idx,           \* 1-based position of the loop in frames
    kept,          \* local list kept
    prev_hash,     \* local prev_hash (None or hash)
    files,         \* paths of the frame files that exist on disk
    unlinkCalls,   \* paths on which unlink() was attempted, in call order
    hashCalls,     \* paths on which compute_phash() was called, in call order
    result,        \* None until the call returns, then <<returned list>>
    transcript,    \* None or <<list[TranscriptSegment]>>
    grouped,       \* local list grouped of align_transcript_to_frames
    embeds,        \* file names embedded by the markdown body, in order
    transcript_list, \* None (listing raised) or <<tracks of the video>>
    language,      \* argument language of get_transcript
    prefer_manual, \* argument prefer_manual of get_transcript
    selected,      \* local transcript of get_transcript (None or track)
    title,         \* argument title of generate_ai_title
    import_ok,     \* whether "import anthropic" succeeds
    api_reply,     \* None (the API call raises) or <<raw text of the reply>>
    cleaned,       \* local cleaned of generate_ai_title (None until set)
    command,       \* the console command that runs: main or vidcapture_main
    urls,          \* argument urls of main
    clipboard,     \* what get_clipboard_url() returns (None or <<url>>)
    yes,           \* CLI flag --yes
    cli_files,     \* argument files of vidcapture_main
    json_output,   \* CLI flag --json
    video_urls,    \* local video_urls of main
    confirmed,     \* None until click.confirm was answered, then <<answer>>
    item_index,    \* 1-based position of a batch loop in its items
    success_count, \* local success_count of a batch loop
    error_count,   \* local error_count of a batch loop
    attempted,     \* the items handed to process_video / process_local_video
    results,       \* local results of vidcapture_main
    cached_config, \* module global _cached_config (None or <<config>>)
    config_was_created, \* module global _config_was_created
    file_exists,   \* whether ~/.ytcapture.yml exists
    file_content,  \* the text of ~/.ytcapture.yml
    writable,      \* whether the config file can be written
    loads,         \* loads of the config file since the cache was cleared
    first_load,    \* None, or <<that load: file absent? file created?>>
    calls,         \* number of calls made to the config module
    last_call,     \* the function of the config module called last
    extractor,     \* the extraction function that runs
    max_frames,    \* argument max_frames (None or <<n>>)
    frame_interval, \* argument interval, in seconds
    frame_files,   \* the frame files found in output_dir, sorted
    dirs_before,   \* the images/<stem>[-n] directories existing at the call
    images_dirs,   \* the images/<stem>[-n] directories existing now
    suffix,        \* local suffix of process_local_video
    identifier_suffix, \* metadata._identifier_suffix
    frames_dir     \* local frames_dir (None until chosen, then <<dir>>)

vars == <<pc, frames, phash, no_dedup, dedup_threshold, threshold,
          delete_files, idx, kept, prev_hash, files, unlinkCalls, hashCalls,
          result, transcript, grouped, embeds, transcript_list, language,
          prefer_manual, selected, title, import_ok, api_reply, cleaned,
          command, urls, clipboard, yes, cli_files, json_output, video_urls,
          confirmed, item_index, success_count, error_count, attempted,
          results, cached_config, config_was_created, file_exists,
          file_content, writable, loads, first_load, calls, last_call,
          extractor, max_frames, frame_interval, frame_files, dirs_before,
          images_dirs, suffix, identifier_suffix, frames_dir>>

dedupVars == <<phash, no_dedup, dedup_threshold, threshold, delete_files,
               kept, prev_hash, files, unlinkCalls, hashCalls>>

\* the frame pipeline and the aligner, without pc and result
frameVars == <<frames, idx, transcript, grouped, embeds, dedupVars>>

transcriptVars == <<transcript_list, language, prefer_manual, selected>>

titleVars == <<title, import_ok, api_reply, cleaned>>

\* the batch loops of main and vidcapture_main
batchVars == <<item_index, success_count, error_count, attempted, results>>

cliVars == <<command, urls, clipboard, yes, cli_files, json_output,
             video_urls, confirmed, batchVars>>

\* the components outside the frame pipeline, get_transcript and
\* generate_ai_title
\* config.py: the cached config, the config file, and their history
configVars == <<cached_config, config_was_created, file_exists,
                file_content, writable, loads, first_load, calls,
                last_call>>

\* frames.py: the arguments of an extraction and the files it finds
extractVars == <<extractor, max_frames, frame_interval, frame_files>>

\* process_local_video: the images directories and the chosen identifier
localVars == <<dirs_before, images_dirs, suffix, identifier_suffix,
               frames_dir>>

laterVars == <<extractVars, localVars>>

otherVars == <<cliVars, configVars, laterVars>>

\* the variables of the components a frame or aligner step leaves alone
restVars == <<transcriptVars, titleVars, otherVars>>

----------------------------------------------------------------------------
(* Bounds of the model *)

MaxFrames == 3

MaxSegments == 3

MaxTracks == 2

MaxArgs == 2

MaxCalls == 4

MaxFiles == 3

MaxSuffix == 6

----------------------------------------------------------------------------
(* Option values *)

None == <<>>

Some(x) == <<x>>

IsNone(o) == o = <<>>

Val(o) == o[1]

----------------------------------------------------------------------------
(* Program constants and input domains *)

HashBits == 64

HashDivisor == 64

DefaultInterval == 15

Bits == 0..(HashBits - 1)

\* Fingerprints the bounded inputs are drawn from: pairwise Hamming
\* distances 0, 6, 12, 20, 26, 32, 52, 58 and 64 all occur.
Palette ==
    { {}, 0..5, 6..11, 0..11, 0..31, Bits }

\* Outcomes of compute_phash: a hash or an exception.
Outcomes == {None} \cup {Some(h) : h \in Palette}

\* Values of --dedup-threshold, in hundredths.
Thresholds == {0, 50, 85, 95, 100, 120}

FrameInfo(p, ts) == [path |-> p, timestamp |-> ts]

\* Frames as the extractors build them: file i of the sorted glob carries
\* timestamp float(i * interval), i counted from 0.
ExtractedFrames(n, interval) ==
    [i \in 1..n |-> FrameInfo(i, (i - 1) * interval)]

----------------------------------------------------------------------------
(* dedup.py *)

\* ImageHash.__sub__: the number of positions where the two arrays differ.
HammingDistance_oneSided(h1, h2) == Cardinality(h1 \ h2)

HammingDistance(h1, h2) == Cardinality((h1 \ h2) \cup (h2 \ h1))

\* hash_similarity, in 64ths: 1.0 - distance/64.0 is (64 - distance)/64.
hash_similarity(hash1, hash2) ==
    HashDivisor - HammingDistance(hash1, hash2)

\* similarity < threshold, similarity in 64ths and threshold in hundredths.
SimilarityBelow_leq(similarity, t) == similarity * 100 <= t * HashDivisor

SimilarityBelow(similarity, t) == similarity * 100 < t * HashDivisor

\* The branch one iteration of the loop takes: cur is the outcome of
\* compute_phash for the frame, prev the value of prev_hash.
Branch(prev, cur, t) ==
    IF IsNone(cur) THEN "unreadable"
    ELSE IF IsNone(prev) THEN "first"
    ELSE IF SimilarityBelow(hash_similarity(Val(prev), Val(cur)), t)
         THEN "different"
    ELSE "duplicate"

\* prev_hash after an iteration that took branch b.
NextPrevHash_lastSeen(b, prev, cur) ==
    IF b = "unreadable" THEN None ELSE cur

NextPrevHash_noReset(b, prev, cur) ==
    IF b = "unreadable" THEN prev
    ELSE IF b \in {"first", "different"} THEN cur
    ELSE prev

NextPrevHash_firstOnly(b, prev, cur) ==
    IF b = "unreadable" THEN None
    ELSE IF b = "first" THEN cur
    ELSE prev

NextPrevHash_firstNotRef(b, prev, cur) ==
    IF b = "unreadable" THEN None
    ELSE IF b = "first" THEN None
    ELSE IF b = "different" THEN cur
    ELSE prev

NextPrevHash(b, prev, cur) ==
    IF b = "unreadable" THEN None
    ELSE IF b \in {"first", "different"} THEN cur
    ELSE prev

\* kept after an iteration that took branch b.
NextKept_prepend(b, k, frame) ==
    IF b = "duplicate" THEN k ELSE <<frame>> \o k

NextKept(b, k, frame) ==
    IF b = "duplicate" THEN k ELSE Append(k, frame)

\* elif delete_files: whether the iteration calls frame.path.unlink()
AttemptsUnlink_never(b, del) == FALSE

AttemptsUnlink_always(b, del) == b = "duplicate"

AttemptsUnlink(b, del) == b = "duplicate" /\ del

\* Where control is after an iteration: both try/except blocks absorb their
\* exception (compute_phash raising, unlink raising) and the loop goes on.
AfterIteration_propagate(b, unlinkOk) ==
    IF b = "unreadable" \/ ~unlinkOk THEN "raised" ELSE "dedup_loop"

AfterIteration(b, unlinkOk) == "dedup_loop"

\* The early returns of deduplicate_frames.
IsEmptyInput(fs) == Len(fs) = 0

IsSingleInput_never(fs) == FALSE

IsSingleInput(fs) == Len(fs) = 1

\* process_video: dedup_threshold=None if no_dedup else dedup_threshold
EffectiveThreshold_ignoreFlag(nd, t) == Some(t)

EffectiveThreshold(nd, t) == IF nd THEN None ELSE Some(t)

\* The whole scan as a function of the input: the kept list the loop ends
\* with when started at position i with reference prev.
RECURSIVE ScanKept(_, _, _, _, _)
ScanKept(fs, ph, t, i, prev) ==
    IF i > Len(fs) THEN <<>>
    ELSE LET cur == ph[fs[i].path]
             b   == Branch(prev, cur, t)
             rest == ScanKept(fs, ph, t, i + 1, NextPrevHash(b, prev, cur))
         IN  IF b = "duplicate" THEN rest ELSE <<fs[i]>> \o rest

\* deduplicate_frames as a function of its input, for a numeric threshold.
DedupFunction(fs, ph, t) ==
    IF IsEmptyInput(fs) THEN <<>>
    ELSE IF IsSingleInput(fs) THEN fs
    ELSE ScanKept(fs, ph, t, 1, None)

----------------------------------------------------------------------------
(* markdown.py: align_transcript_to_frames *)

\* Frame timestamps and segment starts/durations the bounded inputs of the
\* aligner are drawn from (seconds).
Times == {0, 15, 30}

Starts == {5, 20, 30, 50}

Durations == {2, 40}

\* TranscriptSegment; text stands for the identity of the segment object.
TranscriptSegment(txt, st, du) == [text |-> txt, start |-> st, duration |-> du]

\* float('inf')
Infinity == <<>>

\* frame_end: the next frame's timestamp, or infinity for the last frame
FrameEnd(fs, i) ==
    IF i + 1 <= Len(fs) THEN <<fs[i + 1].timestamp>> ELSE Infinity

\* frame_start <= s.start < frame_end
InWindow_closedEnd(s, frame_start, frame_end) ==
    /\ frame_start <= s.start
    /\ (frame_end = Infinity \/ s.start <= frame_end[1])

InWindow_openStart(s, frame_start, frame_end) ==
    /\ frame_start < s.start
    /\ (frame_end = Infinity \/ s.start < frame_end[1])

InWindow(s, frame_start, frame_end) ==
    /\ frame_start <= s.start
    /\ (frame_end = Infinity \/ s.start < frame_end[1])

\* the segments of a window put in order of start (stable insertion sort)
RECURSIVE InsertByStart(_, _)
InsertByStart(sorted, s) ==
    IF sorted = <<>> THEN <<s>>
    ELSE IF Head(sorted).start <= s.start
         THEN <<Head(sorted)>> \o InsertByStart(Tail(sorted), s)
    ELSE <<s>> \o sorted

RECURSIVE OrderedByStart(_)
OrderedByStart(segs) ==
    IF segs = <<>> THEN <<>>
    ELSE InsertByStart(OrderedByStart(SubSeq(segs, 1, Len(segs) - 1)),
                       segs[Len(segs)])

WindowSegments_sorted(tr, fs, i) ==
    LET Hit(s) == InWindow(s, fs[i].timestamp, FrameEnd(fs, i))
    IN  OrderedByStart(SelectSeq(tr, Hit))

\* [s for s in transcript if frame_start <= s.start < frame_end]
WindowSegments(tr, fs, i) ==
    LET Hit(s) == InWindow(s, fs[i].timestamp, FrameEnd(fs, i))
    IN  SelectSeq(tr, Hit)

\* grouped.append((frame, segments))
AppendGroup_skipEmpty(g, frame, segments) ==
    IF segments = <<>> THEN g ELSE Append(g, <<frame, segments>>)

AppendGroup(g, frame, segments) == Append(g, <<frame, segments>>)

\* [(frame, []) for frame in frames]
EmptyGroups_none(fs) == <<>>

EmptyGroups(fs) == [i \in 1..Len(fs) |-> <<fs[i], <<>>>>]

\* generate_markdown_body / generate_frames_only: one section per frame, in
\* order, embedding images/<identifier>/<frame.path.name>
SectionEmbeds_renumbered(fs) == [j \in 1..Len(fs) |-> j]

SectionEmbeds(fs) == [j \in 1..Len(fs) |-> fs[j].path]

\* not transcript: None or the empty list
NoTranscript(tr) == IF IsNone(tr) THEN TRUE ELSE Val(tr) = <<>>

----------------------------------------------------------------------------
(* transcript.py: get_transcript *)

\* Strings are sequences of one-character strings.
StartsWith(str, prefix) ==
    /\ Len(prefix) <= Len(str)
    /\ SubSeq(str, 1, Len(prefix)) = prefix

\* language codes of the tracks a video offers, and requested languages
LanguageCodes == {<<"e", "n">>, <<"e", "n", "-", "U", "S">>, <<"e", "s">>}

Languages == {<<"e", "n">>, <<"e", "s">>}

\* a transcript track of the listing; id stands for the object's identity
Track(id, gen, code) ==
    [id |-> id, is_generated |-> gen, language_code |-> code]

TrackLists ==
    UNION {{[k \in 1..n |-> Track(k, gen[k], code[k])]
               : gen \in [1..n -> BOOLEAN], code \in [1..n -> LanguageCodes]}
           : n \in 0..MaxTracks}

\* [t for t in transcript_list if not t.is_generated]
ManualTranscripts(tl) ==
    LET Manual(t) == ~t.is_generated IN SelectSeq(tl, Manual)

\* [t for t in transcript_list if t.is_generated]
GeneratedTranscripts(tl) ==
    LET Generated(t) == t.is_generated IN SelectSeq(tl, Generated)

\* for t in ts: if t.language_code.startswith(language): transcript = t; break
FirstInLanguage(ts, lang) ==
    LET Match(t) == StartsWith(t.language_code, lang)
        hits == SelectSeq(ts, Match)
    IN  IF hits = <<>> THEN None ELSE Some(Head(hits))

\* the chain of choices of get_transcript, lines 58-85
SelectTranscript(tl, lang, prefer) ==
    LET manual    == ManualTranscripts(tl)
        generated == GeneratedTranscripts(tl)
        t1 == IF prefer THEN FirstInLanguage(manual, lang) ELSE None
        t2 == IF IsNone(t1) THEN FirstInLanguage(generated, lang) ELSE t1
        t3 == IF IsNone(t2) /\ manual # <<>> THEN Some(manual[1]) ELSE t2
        t4 == IF IsNone(t3) /\ generated # <<>> THEN Some(generated[1])
              ELSE t3
        t5 == IF IsNone(t4) /\ tl # <<>> THEN Some(tl[1]) ELSE t4
    IN  t5

----------------------------------------------------------------------------
(* utils.py: sanitize_title; titling.py *)

MinTitleWords == 2

MaxTitleWords == 12

MinTitleLength == 10

MaxTitleLength == 150

SanitizeMaxLength == 100

\* the characters re.sub(r'[<>:"/\\|?*]', ' ', title) replaces
InvalidFilenameChars == {"<", ">", ":", "\"", "/", "\\", "|", "?", "*"}

Rep(c, n) == [i \in 1..n |-> c]

\* str.lstrip(c)
LStripChar(str, c) ==
    LET other == {i \in 1..Len(str) : str[i] # c}
    IN  IF other = {} THEN <<>>
        ELSE SubSeq(str, CHOOSE i \in other : \A k \in other : i <= k,
                    Len(str))

\* str.rstrip(c)
RStripChar(str, c) ==
    LET other == {i \in 1..Len(str) : str[i] # c}
    IN  IF other = {} THEN <<>>
        ELSE SubSeq(str, 1, CHOOSE i \in other : \A k \in other : k <= i)

\* str.strip(), the only whitespace of the alphabet being the space
Strip(str) == RStripChar(LStripChar(str, " "), " ")

\* len(str.split())
WordCount(str) ==
    Cardinality({i \in 1..Len(str) :
                    str[i] # " " /\ (i = 1 \/ str[i - 1] = " ")})

\* re.sub(r'\s+', ' ', str)
CollapseSpaces(str) ==
    LET first == {i \in 1..Len(str) :
                     ~(str[i] = " " /\ i > 1 /\ str[i - 1] = " ")}
    IN  [j \in 1..Cardinality(first) |->
            str[CHOOSE i \in first :
                    Cardinality({k \in first : k <= i}) = j]]

\* str.rsplit(' ', 1)[0]
RSplitHead(str) ==
    LET spaces == {i \in 1..Len(str) : str[i] = " "}
    IN  IF spaces = {} THEN str
        ELSE SubSeq(str, 1, (CHOOSE i \in spaces :
                                 \A k \in spaces : k <= i) - 1)

sanitize_title(t) ==
    LET replaced  == [i \in 1..Len(t) |->
                         IF t[i] \in InvalidFilenameChars THEN " " ELSE t[i]]
        sanitized == Strip(CollapseSpaces(replaced))
    IN  IF Len(sanitized) > SanitizeMaxLength
        THEN RSplitHead(SubSeq(sanitized, 1, SanitizeMaxLength))
        ELSE sanitized

validate_title(t) ==
    /\ ~(WordCount(t) < MinTitleWords \/ WordCount(t) > MaxTitleWords)
    /\ ~(Len(t) < MinTitleLength \/ Len(t) > MaxTitleLength)

clean_title(raw) ==
    LET t1 == Strip(raw)
        t2 == IF /\ Len(t1) >= 2
                 /\ t1[1] \in {"\"", "'"}
                 /\ t1[Len(t1)] = t1[1]
              THEN Strip(SubSeq(t1, 2, Len(t1) - 1))
              ELSE t1
    IN  Strip(LStripChar(t2, "#"))

TitleResult(ai, orig, used) ==
    [ai_title |-> ai, original_title |-> orig, used_ai |-> used]

\* every fallback return of generate_ai_title
Fallback(t) == TitleResult(t, t, FALSE)

\* if not sanitized: fall back; else the sanitized title is used
AfterSanitize_noEmptyCheck(t, sanitized) == TitleResult(sanitized, t, TRUE)

AfterSanitize(t, sanitized) ==
    IF sanitized = <<>> THEN Fallback(t) ELSE TitleResult(sanitized, t, TRUE)

\* Input titles and raw replies of the model the bounded inputs are drawn
\* from.
Titles == {<<>>, <<"t">>, <<"t", " ", "u">>}

Word(n) == Rep("a", n)

TwoWords == Word(4) \o <<" ">> \o Word(5)

Replies ==
    { TwoWords,
      <<"\"">> \o TwoWords \o <<"\"">>,
      <<"#", "#", " ">> \o TwoWords \o <<" ">>,
      Word(3) \o <<" ">> \o Word(5),
      <<"'">> \o Word(3) \o <<" ">> \o Word(5) \o <<"'">>,
      Word(10),
      Rep("?", 4) \o <<" ">> \o Rep("?", 5),
      <<"a", "a", "?", "a", "a", " ">> \o Word(5),
      [i \in 1..25 |-> IF i % 2 = 1 THEN "a" ELSE " "],
      Word(1) \o <<" ">> \o Word(149),
      Word(1) \o <<" ">> \o Word(110),
      <<>> }

----------------------------------------------------------------------------
(* Components at rest: the values their variables have in a specification   *)
(* that does not run them                                                   *)

FramesIdle ==
    /\ frames = <<>>
    /\ idx = 0
    /\ transcript = None
    /\ grouped = <<>>
    /\ embeds = <<>>
    /\ phash = <<>>
    /\ no_dedup = FALSE
    /\ dedup_threshold = 0
    /\ threshold = None
    /\ delete_files = FALSE
    /\ kept = <<>>
    /\ prev_hash = None
    /\ files = {}
    /\ unlinkCalls = <<>>
    /\ hashCalls = <<>>

TranscriptIdle ==
    /\ transcript_list = None
    /\ language = <<>>
    /\ prefer_manual = FALSE
    /\ selected = None

TitleIdle ==
    /\ title = <<>>
    /\ import_ok = FALSE
    /\ api_reply = None
    /\ cleaned = None

BatchIdle ==
    /\ item_index = 0
    /\ success_count = 0
    /\ error_count = 0
    /\ attempted = <<>>
    /\ results = <<>>

CliIdle ==
    /\ command = ""
    /\ urls = <<>>
    /\ clipboard = None
    /\ yes = FALSE
    /\ cli_files = <<>>
    /\ json_output = FALSE
    /\ video_urls = <<>>
    /\ confirmed = None
    /\ BatchIdle

ConfigIdle ==
    /\ cached_config = None
    /\ config_was_created = FALSE
    /\ file_exists = FALSE
    /\ file_content = ""
    /\ writable = FALSE
    /\ loads = 0
    /\ first_load = None
    /\ calls = 0
    /\ last_call = ""

ExtractIdle ==
    /\ extractor = ""
    /\ max_frames = None
    /\ frame_interval = 0
    /\ frame_files = <<>>

LocalIdle ==
    /\ dirs_before = {}
    /\ images_dirs = {}
    /\ suffix = 0
    /\ identifier_suffix = 0
    /\ frames_dir = None

LaterIdle == ExtractIdle /\ LocalIdle

OtherIdle == CliIdle /\ ConfigIdle /\ LaterIdle

----------------------------------------------------------------------------
(* Spec: the frame pipeline *)

Init ==
    /\ pc = "process_video"
    /\ \E n \in 0..MaxFrames :
          /\ frames = ExtractedFrames(n, DefaultInterval)
          /\ phash \in [1..n -> Outcomes]
          /\ files = 1..n
    /\ no_dedup \in BOOLEAN
    /\ dedup_threshold \in Thresholds
    /\ delete_files \in BOOLEAN
    /\ threshold = None
    /\ idx = 0
    /\ kept = <<>>
    /\ prev_hash = None
    /\ unlinkCalls = <<>>
    /\ hashCalls = <<>>
    /\ result = None
    /\ transcript = None
    /\ grouped = <<>>
    /\ embeds = <<>>
    /\ TranscriptIdle
    /\ TitleIdle
    /\ OtherIdle

\* process_video step 5: the frames and the effective threshold are handed
\* to the extraction with integrated dedup.
PassThreshold ==
    /\ pc = "process_video"
    /\ threshold' = EffectiveThreshold(no_dedup, dedup_threshold)
    /\ pc' = "dedup_entry"
    /\ UNCHANGED <<frames, phash, no_dedup, dedup_threshold, delete_files,
                   idx, kept, prev_hash, files, unlinkCalls, hashCalls,
                   result, transcript, grouped, embeds, restVars>>

\* Disabled dedup: the algorithm is bypassed and the frames are returned.
BypassDedup ==
    /\ pc = "dedup_entry"
    /\ IsNone(threshold)
    /\ result' = Some(frames)
    /\ pc' = "done"
    /\ UNCHANGED <<frames, phash, no_dedup, dedup_threshold, threshold,
                   delete_files, idx, kept, prev_hash, files, unlinkCalls,
                   hashCalls, transcript, grouped, embeds, restVars>>

\* deduplicate_frames: if not frames: return []
ReturnEmpty ==
    /\ pc = "dedup_entry"
    /\ ~IsNone(threshold)
    /\ IsEmptyInput(frames)
    /\ result' = Some(<<>>)
    /\ pc' = "done"
    /\ UNCHANGED <<frames, phash, no_dedup, dedup_threshold, threshold,
                   delete_files, idx, kept, prev_hash, files, unlinkCalls,
                   hashCalls, transcript, grouped, embeds, restVars>>

\* deduplicate_frames: if len(frames) == 1: return frames
ReturnSingle ==
    /\ pc = "dedup_entry"
    /\ ~IsNone(threshold)
    /\ ~IsEmptyInput(frames)
    /\ IsSingleInput(frames)
    /\ result' = Some(frames)
    /\ pc' = "done"
    /\ UNCHANGED <<frames, phash, no_dedup, dedup_threshold, threshold,
                   delete_files, idx, kept, prev_hash, files, unlinkCalls,
                   hashCalls, transcript, grouped, embeds, restVars>>

\* deduplicate_frames: kept = [], prev_hash = None, enter the for loop
EnterLoop ==
    /\ pc = "dedup_entry"
    /\ ~IsNone(threshold)
    /\ ~IsEmptyInput(frames)
    /\ ~IsSingleInput(frames)
    /\ kept' = <<>>
    /\ prev_hash' = None
    /\ idx' = 1
    /\ pc' = "dedup_loop"
    /\ UNCHANGED <<frames, phash, no_dedup, dedup_threshold, threshold,
                   delete_files, files, unlinkCalls, hashCalls, result,
                   transcript, grouped, embeds, restVars>>

\* One iteration of the for loop that takes branch b; the unlink of a
\* duplicate's file, when attempted, succeeds or raises (absorbed).
Iterate(b, unlinkOk) ==
    /\ pc = "dedup_loop"
    /\ idx <= Len(frames)
    /\ LET frame == frames[idx]
           cur   == phash[frame.path]
       IN  /\ Branch(prev_hash, cur, Val(threshold)) = b
           /\ hashCalls' = Append(hashCalls, frame.path)
           /\ kept' = NextKept(b, kept, frame)
           /\ prev_hash' = NextPrevHash(b, prev_hash, cur)
           /\ pc' = AfterIteration(b, unlinkOk)
           /\ IF AttemptsUnlink(b, delete_files)
              THEN /\ unlinkCalls' = Append(unlinkCalls, frame.path)
                   /\ files' = IF unlinkOk THEN files \ {frame.path}
                                           ELSE files
              ELSE /\ unlinkOk
                   /\ UNCHANGED <<unlinkCalls, files>>
    /\ idx' = idx + 1
    /\ UNCHANGED <<frames, phash, no_dedup, dedup_threshold, threshold,
                   delete_files, result, transcript, grouped, embeds,
                   restVars>>

\* except Exception: kept.append(frame); prev_hash = None; continue
KeepUnreadable == Iterate("unreadable", TRUE)

\* if prev_hash is None: kept.append(frame); prev_hash = current_hash
KeepFirst == Iterate("first", TRUE)

\* if similarity < threshold: kept.append(frame); prev_hash = current_hash
KeepDifferent == Iterate("different", TRUE)

\* elif delete_files: frame.path.unlink() succeeds
DropAndUnlink == delete_files /\ Iterate("duplicate", TRUE)

\* elif delete_files: frame.path.unlink() raises, the error is ignored
DropUnlinkFails == delete_files /\ Iterate("duplicate", FALSE)

\* similarity >= threshold and not delete_files: the frame is skipped
DropKeepFile == ~delete_files /\ Iterate("duplicate", TRUE)

\* return kept
ReturnKept ==
    /\ pc = "dedup_loop"
    /\ idx > Len(frames)
    /\ result' = Some(kept)
    /\ pc' = "done"
    /\ UNCHANGED <<frames, phash, no_dedup, dedup_threshold, threshold,
                   delete_files, idx, kept, prev_hash, files, unlinkCalls,
                   hashCalls, transcript, grouped, embeds, restVars>>

\* process_video step 7: the markdown body is generated from the frames the
\* extraction returned.
RenderBody ==
    /\ pc = "done"
    /\ embeds' = SectionEmbeds(Val(result))
    /\ pc' = "rendered"
    /\ UNCHANGED <<frames, phash, no_dedup, dedup_threshold, threshold,
                   delete_files, idx, kept, prev_hash, files, unlinkCalls,
                   hashCalls, result, transcript, grouped, restVars>>

Next ==
    \/ PassThreshold
    \/ BypassDedup
    \/ ReturnEmpty
    \/ ReturnSingle
    \/ EnterLoop
    \/ KeepUnreadable
    \/ KeepFirst
    \/ KeepDifferent
    \/ DropAndUnlink
    \/ DropUnlinkFails
    \/ DropKeepFile
    \/ ReturnKept
    \/ RenderBody

Spec == Init /\ [][Next]_vars

----------------------------------------------------------------------------
(* SpecAlign: align_transcript_to_frames on bounded inputs *)

FrameLists ==
    UNION {{[i \in 1..n |-> FrameInfo(i, ts[i])] : ts \in [1..n -> Times]}
           : n \in 0..MaxFrames}

SegmentLists ==
    UNION {{[k \in 1..n |-> TranscriptSegment(k, st[k], du[k])]
               : st \in [1..n -> Starts], du \in [1..n -> Durations]}
           : n \in 0..MaxSegments}

InitAlign ==
    /\ pc = "align_entry"
    /\ frames \in FrameLists
    /\ transcript \in {None} \cup {Some(tr) : tr \in SegmentLists}
    /\ grouped = <<>>
    /\ idx = 0
    /\ result = None
    /\ phash = <<>>
    /\ no_dedup = FALSE
    /\ dedup_threshold = 0
    /\ threshold = None
    /\ delete_files = FALSE
    /\ kept = <<>>
    /\ prev_hash = None
    /\ files = {}
    /\ unlinkCalls = <<>>
    /\ hashCalls = <<>>
    /\ embeds = <<>>
    /\ TranscriptIdle
    /\ TitleIdle
    /\ OtherIdle

\* if not frames: return []
AlignNoFrames ==
    /\ pc = "align_entry"
    /\ Len(frames) = 0
    /\ result' = Some(<<>>)
    /\ pc' = "align_done"
    /\ UNCHANGED <<frames, transcript, grouped, idx, dedupVars, embeds, restVars>>

\* if not transcript: return [(frame, []) for frame in frames]
AlignNoTranscript ==
    /\ pc = "align_entry"
    /\ Len(frames) # 0
    /\ NoTranscript(transcript)
    /\ result' = Some(EmptyGroups(frames))
    /\ pc' = "align_done"
    /\ UNCHANGED <<frames, transcript, grouped, idx, dedupVars, embeds, restVars>>

\* grouped = []; enter the loop over enumerate(frames)
AlignEnterLoop ==
    /\ pc = "align_entry"
    /\ Len(frames) # 0
    /\ ~NoTranscript(transcript)
    /\ grouped' = <<>>
    /\ idx' = 1
    /\ pc' = "align_loop"
    /\ UNCHANGED <<frames, transcript, result, dedupVars, embeds, restVars>>

\* one iteration: the window of frame idx, its segments, the append
AlignFrame ==
    /\ pc = "align_loop"
    /\ idx <= Len(frames)
    /\ grouped' = AppendGroup(grouped, frames[idx],
                              WindowSegments(Val(transcript), frames, idx))
    /\ idx' = idx + 1
    /\ UNCHANGED <<pc, frames, transcript, result, dedupVars, embeds, restVars>>

\* return grouped
AlignReturn ==
    /\ pc = "align_loop"
    /\ idx > Len(frames)
    /\ result' = Some(grouped)
    /\ pc' = "align_done"
    /\ UNCHANGED <<frames, transcript, grouped, idx, dedupVars, embeds, restVars>>

NextAlign ==
    \/ AlignNoFrames
    \/ AlignNoTranscript
    \/ AlignEnterLoop
    \/ AlignFrame
    \/ AlignReturn

SpecAlign == InitAlign /\ [][NextAlign]_vars

----------------------------------------------------------------------------
(* Properties of the frame pipeline *)

LastKept == kept[Len(kept)]

Readable(i) == ~IsNone(phash[frames[i].path])

HashOf(i) == Val(phash[frames[i].path])

\* similarity(frame i, frame j) < t, written out in integers
Dissimilar(i, j, t) ==
    (64 - HammingDistance(HashOf(i), HashOf(j))) * 100 < t * 64

InLoopBody == pc = "dedup_loop" /\ idx <= Len(frames)

Returned == pc = "done" /\ ~IsNone(threshold)

\* C1: the reference a frame is compared with is the fingerprint of the most
\* recently kept frame (never that of a dropped frame), and so for readable
\* frames A, B, C with similarity(A,B) >= threshold, similarity(A,C) <
\* threshold and similarity(B,C) >= threshold the result is [A, C].
C1_Scenario ==
    /\ Returned
    /\ Len(frames) = 3
    /\ \A i \in 1..3 : Readable(i)
    /\ ~Dissimilar(1, 2, Val(threshold))
    /\ Dissimilar(1, 3, Val(threshold))
    /\ ~Dissimilar(2, 3, Val(threshold))

C1_ComparedAgainstLastKept ==
    /\ (pc = "dedup_loop" /\ ~IsNone(prev_hash)) =>
           /\ kept # <<>>
           /\ prev_hash = phash[LastKept.path]
    /\ C1_Scenario => result = Some(<<frames[1], frames[3]>>)

C1_Witness ==
    /\ C1_Scenario
    /\ result = Some(<<frames[1], frames[3]>>)
    /\ unlinkCalls = <<2>>

\* C2: with a successful fingerprint and a reference, the frame is kept and
\* becomes the reference iff similarity(reference, frame) < threshold;
\* otherwise (similarity equal to the threshold included) it is dropped and
\* the reference stays.
C2_Step ==
    (InLoopBody /\ Readable(idx) /\ ~IsNone(prev_hash)) =>
        LET frame == frames[idx]
            sim64 == 64 - HammingDistance(Val(prev_hash), HashOf(idx))
        IN  IF sim64 * 100 < Val(threshold) * 64
            THEN kept' = Append(kept, frame) /\ prev_hash' = Some(HashOf(idx))
            ELSE kept' = kept /\ prev_hash' = prev_hash

C2_KeptIffBelowThreshold == [][C2_Step]_vars

\* the second frame was dropped at similarity exactly equal to the threshold
C2_Witness ==
    /\ pc = "dedup_loop"
    /\ idx = 3
    /\ Readable(1) /\ Readable(2)
    /\ (64 - HammingDistance(HashOf(1), HashOf(2))) * 100
           = Val(threshold) * 64
    /\ kept = <<frames[1]>>
    /\ prev_hash = Some(HashOf(1))

\* C3: an unreadable frame is kept and resets the reference; the next
\* readable frame is kept unconditionally and becomes the reference; an
\* unreadable frame between two near-identical readable frames leaves all
\* three kept.
C3_Step ==
    /\ (InLoopBody /\ ~Readable(idx)) =>
           kept' = Append(kept, frames[idx]) /\ prev_hash' = None
    /\ (InLoopBody /\ Readable(idx) /\ idx > 1 /\ ~Readable(idx - 1)) =>
           /\ kept' = Append(kept, frames[idx])
           /\ prev_hash' = Some(HashOf(idx))

C3_Scenario ==
    /\ Returned
    /\ Len(frames) = 3
    /\ Readable(1) /\ ~Readable(2) /\ Readable(3)
    /\ ~Dissimilar(1, 3, Val(threshold))

C3_UnreadableKeptAndResets ==
    /\ [][C3_Step]_vars
    /\ [](C3_Scenario => result = Some(frames))

C3_Witness ==
    /\ C3_Scenario
    /\ result = Some(frames)
    /\ unlinkCalls = <<>>

Removed(t) == Len(frames) - Len(DedupFunction(frames, phash, t))

C6_HigherThresholdRemovesMore ==
    Returned =>
        \A t2 \in Thresholds :
            Val(threshold) < t2 =>
                Removed(t2) >= Len(frames) - Len(Val(result))

\* C10: empty input gives an empty list; a one-frame input is returned
\* unchanged for any threshold, with no fingerprint computed and no file
\* deleted.
C10_TrivialInputs ==
    pc = "done" =>
        /\ Len(frames) = 0 => result = Some(<<>>)
        /\ Len(frames) = 1 =>
               /\ result = Some(frames)
               /\ hashCalls = <<>>
               /\ unlinkCalls = <<>>
               /\ files = {frames[1].path}

C10_Witness ==
    /\ pc = "done"
    /\ ~IsNone(threshold)
    /\ Len(frames) = 1
    /\ result = Some(frames)
    /\ hashCalls = <<>>

\* The step-wise loop and the scan written as a function agree.
LoopMatchesFunction ==
    Returned => result = Some(DedupFunction(frames, phash, Val(threshold)))

----------------------------------------------------------------------------
(* Properties of align_transcript_to_frames *)

AlignDone == pc = "align_done"

Groups == Val(result)

Segments == IF IsNone(transcript) THEN <<>> ELSE Val(transcript)

\* segment k of the transcript occurs in group i
InGroup(i, k) ==
    \E j \in 1..Len(Groups[i][2]) : Groups[i][2][j] = Segments[k]

\* the places (group, position) where segment k of the transcript occurs
Places(k) ==
    {<<i, j>> \in (1..Len(Groups)) \X (1..MaxSegments) :
        j <= Len(Groups[i][2]) /\ Groups[i][2][j] = Segments[k]}

RECURSIVE SumSizes(_, _)
SumSizes(g, i) ==
    IF i > Len(g) THEN 0 ELSE Len(g[i][2]) + SumSizes(g, i + 1)

NonDecreasing(fs) ==
    \A i \in 1..(Len(fs) - 1) : fs[i].timestamp <= fs[i + 1].timestamp

SortedByStart(tr) ==
    \A k \in 1..(Len(tr) - 1) : tr[k].start <= tr[k + 1].start

NoneBeforeFirstFrame ==
    \A k \in 1..Len(Segments) : frames[1].timestamp <= Segments[k].start

Partitioned ==
    /\ \A k \in 1..Len(Segments) : Cardinality(Places(k)) = 1
    /\ SumSizes(Groups, 1) = Len(Segments)

C5_Precondition ==
    /\ AlignDone
    /\ Len(frames) > 0
    /\ NonDecreasing(frames)
    /\ SortedByStart(Segments)

\* C5 (as claimed): for a non-empty frame list with non-decreasing
\* timestamps and a transcript sorted by start, every segment is in exactly
\* one group and the group sizes sum to the number of segments.
C5_EverySegmentInOneGroup == C5_Precondition => Partitioned

\* C5 (amended): the same, for transcripts none of whose segments starts
\* before the first frame's timestamp.
C5_SegmentsFromFirstFrameInOneGroup ==
    (C5_Precondition /\ NoneBeforeFirstFrame) => Partitioned

\* three segments spread over two non-empty groups, one of them starting
\* exactly on the second frame's timestamp
C5_Witness ==
    /\ C5_Precondition
    /\ NoneBeforeFirstFrame
    /\ Len(frames) >= 2
    /\ Len(Segments) = 3
    /\ Len(Groups) >= 2
    /\ Len(Groups[1][2]) > 0
    /\ Len(Groups[2][2]) > 0
    /\ \E k \in 1..3 : Segments[k].start = frames[2].timestamp
    /\ Partitioned

\* C7: segment s is in group i iff frames[i].timestamp <= s.start and, for
\* i < last, s.start < frames[i+1].timestamp; the duration plays no part.
\* Segments starting at 5, 20, 50 with frames at 0 and 30 give the groups
\* [5, 20] and [50].
C7_ScenarioC ==
    /\ AlignDone
    /\ Len(frames) = 2
    /\ frames[1].timestamp = 0 /\ frames[2].timestamp = 30
    /\ Len(Segments) = 3
    /\ Segments[1].start = 5 /\ Segments[2].start = 20
    /\ Segments[3].start = 50

C7_GroupedByStartWindow ==
    (AlignDone /\ Len(frames) > 0 /\ Len(Segments) > 0) =>
        /\ Len(Groups) = Len(frames)
        /\ \A i \in 1..Len(frames) : \A k \in 1..Len(Segments) :
               InGroup(i, k) <=>
                   /\ frames[i].timestamp <= Segments[k].start
                   /\ (i = Len(frames)
                         \/ Segments[k].start < frames[i + 1].timestamp)
        /\ C7_ScenarioC =>
               /\ Groups[1][2] = <<Segments[1], Segments[2]>>
               /\ Groups[2][2] = <<Segments[3]>>

\* scenario C with the segment at 20 lasting until 60, past the frame at 30
C7_Witness ==
    /\ C7_ScenarioC
    /\ Segments[2].duration = 40
    /\ Groups[1][2] = <<Segments[1], Segments[2]>>
    /\ Groups[2][2] = <<Segments[3]>>

\* C8: one group per input frame, in input order, for any transcript.
C8_OneGroupPerFrame ==
    AlignDone =>
        /\ Len(Groups) = Len(frames)
        /\ \A i \in 1..Len(frames) : Groups[i][1] = frames[i]

\* a transcript is present and still a frame's group is empty
C8_Witness ==
    /\ AlignDone
    /\ Len(Segments) > 0
    /\ Len(frames) >= 2
    /\ Len(Groups) = Len(frames)
    /\ \E i \in 1..Len(Groups) : Groups[i][2] = <<>>
    /\ \E i \in 1..Len(Groups) : Groups[i][2] # <<>>

\* C9: no frames give an empty result whatever the transcript; a transcript
\* that is None or empty gives one group per frame, each without segments.
C9_EmptyInputs ==
    AlignDone =>
        /\ Len(frames) = 0 => Groups = <<>>
        /\ Len(Segments) = 0 =>
               /\ Len(Groups) = Len(frames)
               /\ \A i \in 1..Len(frames) : Groups[i] = <<frames[i], <<>>>>

C9_Witness ==
    /\ AlignDone
    /\ IsNone(transcript)
    /\ Len(frames) >= 2
    /\ Len(Groups) = Len(frames)
    /\ \A i \in 1..Len(frames) : Groups[i][2] = <<>>

----------------------------------------------------------------------------
(* Further properties of the frame pipeline *)

\* deduplicate_frames has returned (numeric threshold)
Finished == pc \in {"done", "rendered"} /\ ~IsNone(threshold)

Paths(fs) == [j \in 1..Len(fs) |-> fs[j].path]

PathSet(fs) == {fs[j].path : j \in 1..Len(fs)}

\* s is a subsequence of t: s is t with some elements left out
RECURSIVE IsSubseq(_, _)
IsSubseq(s, t) ==
    IF s = <<>> THEN TRUE
    ELSE IF t = <<>> THEN FALSE
    ELSE IF Head(s) = Head(t) THEN IsSubseq(Tail(s), Tail(t))
    ELSE IsSubseq(s, Tail(t))

\* the paths of the first n input frames that are not in the list k
DroppedAmong(n, k) ==
    LET Gone(f) == f.path \notin PathSet(k)
    IN  Paths(SelectSeq(SubSeq(frames, 1, n), Gone))

AdjacentDissimilar ==
    \A i \in 1..(Len(frames) - 1) :
        (Readable(i) /\ Readable(i + 1)) =>
            Dissimilar(i, i + 1, Val(threshold))

\* C11: if every pair of adjacent input frames (with computed fingerprints)
\* has similarity strictly below the threshold, all input frames are
\* returned in the same order and nothing is deleted.
C11_CleanSequenceUnchanged ==
    (Finished /\ AdjacentDissimilar) =>
        /\ result = Some(frames)
        /\ unlinkCalls = <<>>
        /\ files = PathSet(frames)

\* three readable frames, the third a copy of the first, all kept
C11_Witness ==
    /\ Finished
    /\ Len(frames) = 3
    /\ \A i \in 1..3 : Readable(i)
    /\ AdjacentDissimilar
    /\ HashOf(1) = HashOf(3)
    /\ result = Some(frames)

\* C12: with delete_files the unlink is attempted exactly once for each
\* dropped frame and for no kept frame, in input order, and by the time the
\* function has returned all of them have happened.
C12_UnlinkOncePerDrop ==
    delete_files =>
        /\ pc = "dedup_loop" => unlinkCalls = DroppedAmong(idx - 1, kept)
        /\ Finished => unlinkCalls = DroppedAmong(Len(frames), Val(result))

C12_Witness ==
    /\ Finished
    /\ delete_files
    /\ Len(frames) = 3
    /\ result = Some(<<frames[1]>>)
    /\ unlinkCalls = <<frames[2].path, frames[3].path>>

\* C13: the output is an order-preserving subsequence of the input.
C13_OutputIsSubsequence ==
    pc \in {"done", "rendered"} => IsSubseq(Val(result), frames)

C13_Witness ==
    /\ Finished
    /\ Len(frames) = 3
    /\ Val(result) = <<frames[1], frames[3]>>
    /\ IsSubseq(Val(result), frames)

\* C14: hash_similarity(h1, h2) is 1 - hamming_distance/64 (here in 64ths:
\* 64 - distance), lies in [0, 1], is symmetric, is 1.0 on equal hashes and
\* 0.0 exactly when all 64 bits differ; stated of every comparison the scan
\* comes to make.
C14_SimilarityProperties ==
    (InLoopBody /\ Readable(idx) /\ ~IsNone(prev_hash)) =>
        LET h1 == Val(prev_hash)
            h2 == HashOf(idx)
            differing == {b \in 0..63 : (b \in h1) # (b \in h2)}
        IN  /\ hash_similarity(h1, h2) = 64 - Cardinality(differing)
            /\ hash_similarity(h1, h2) \in 0..64
            /\ hash_similarity(h1, h2) = hash_similarity(h2, h1)
            /\ hash_similarity(h1, h1) = 64
            /\ hash_similarity(h2, h2) = 64
            /\ hash_similarity(h1, h2) = 0 <=> differing = 0..63

\* a comparison of two hashes that differ in all 64 bits
C14_Witness ==
    /\ InLoopBody
    /\ Readable(idx)
    /\ prev_hash = Some(0..63)
    /\ HashOf(idx) = {}
    /\ hash_similarity(Val(prev_hash), HashOf(idx)) = 0

\* C15: for a numeric threshold no exception leaves deduplicate_frames:
\* control is never at a raise, a failed fingerprint or a failed unlink is
\* followed by the rest of the scan, and a dropped frame whose unlink failed
\* is still not in the returned list.
C15_NoExceptionPropagates ==
    /\ pc \in {"process_video", "dedup_entry", "dedup_loop", "done",
               "rendered"}
    /\ Finished =>
           /\ IsSubseq(Val(result), frames)
           /\ Len(frames) >= 2 => Len(hashCalls) = Len(frames)
           /\ \A p \in PathSet(Val(result)) :
                  \A c \in 1..Len(unlinkCalls) : unlinkCalls[c] # p

\* returned after an unreadable frame and a failed unlink
C15_Witness ==
    /\ Finished
    /\ \E i \in 1..Len(frames) : ~Readable(i)
    /\ \E c \in 1..Len(unlinkCalls) :
           /\ unlinkCalls[c] \in files
           /\ unlinkCalls[c] \notin PathSet(Val(result))

\* C16: for a non-empty input and any numeric threshold the first input
\* frame is the first output frame, readable or not; when readable it is the
\* reference the second frame is compared with.
C16_FirstFrameKept ==
    /\ (Finished /\ Len(frames) >= 1) =>
           /\ Len(Val(result)) >= 1
           /\ Val(result)[1] = frames[1]
    /\ (pc = "dedup_loop" /\ idx = 2 /\ Readable(1)) =>
           prev_hash = Some(HashOf(1))
    /\ (pc = "dedup_loop" /\ idx = 3 /\ Readable(1) /\ Readable(2)) =>
           kept = IF Dissimilar(1, 2, Val(threshold))
                  THEN <<frames[1], frames[2]>>
                  ELSE <<frames[1]>>

\* threshold 0.0: everything after the first frame is a duplicate
C16_Witness ==
    /\ Finished
    /\ threshold = Some(0)
    /\ Len(frames) >= 2
    /\ \A i \in 1..Len(frames) : Readable(i)
    /\ HashOf(1) # HashOf(2)
    /\ result = Some(<<frames[1]>>)

----------------------------------------------------------------------------
(* Further properties of align_transcript_to_frames *)

\* C17: within each group the segments are in the relative order they have
\* in the input transcript, sorted by start or not.
C17_GroupKeepsTranscriptOrder ==
    AlignDone =>
        \A i \in 1..Len(Groups) : IsSubseq(Groups[i][2], Segments)

\* a group holding two segments whose starts decrease
C17_Witness ==
    /\ AlignDone
    /\ \E i \in 1..Len(Groups) :
           /\ Len(Groups[i][2]) >= 2
           /\ Groups[i][2][1].start > Groups[i][2][2].start
           /\ IsSubseq(Groups[i][2], Segments)

----------------------------------------------------------------------------
(* SpecTranscript: get_transcript *)

InitTranscript ==
    /\ pc = "get_transcript"
    /\ transcript_list \in {None} \cup {Some(tl) : tl \in TrackLists}
    /\ language \in Languages
    /\ prefer_manual \in BOOLEAN
    /\ selected = None
    /\ result = None
    /\ FramesIdle
    /\ TitleIdle
    /\ OtherIdle

\* ytt.list(video_id) raises: return None
ListRaises ==
    /\ pc = "get_transcript"
    /\ IsNone(transcript_list)
    /\ result' = Some(None)
    /\ pc' = "transcript_done"
    /\ UNCHANGED <<transcriptVars, frameVars, titleVars, otherVars>>

\* if not transcript_list: return None
ListEmpty ==
    /\ pc = "get_transcript"
    /\ ~IsNone(transcript_list)
    /\ Val(transcript_list) = <<>>
    /\ result' = Some(None)
    /\ pc' = "transcript_done"
    /\ UNCHANGED <<transcriptVars, frameVars, titleVars, otherVars>>

\* lines 54-88: the track is chosen (the list is not empty, so one is)
ChooseTrack ==
    /\ pc = "get_transcript"
    /\ ~IsNone(transcript_list)
    /\ Val(transcript_list) # <<>>
    /\ selected' = SelectTranscript(Val(transcript_list), language,
                                    prefer_manual)
    /\ pc' = "fetch"
    /\ UNCHANGED <<transcript_list, language, prefer_manual, result,
                   frameVars, titleVars, otherVars>>

\* transcript.fetch() succeeds: the segments of the chosen track
FetchReturns ==
    /\ pc = "fetch"
    /\ result' = Some(selected)
    /\ pc' = "transcript_done"
    /\ UNCHANGED <<transcriptVars, frameVars, titleVars, otherVars>>

\* transcript.fetch() raises: return None
FetchRaises ==
    /\ pc = "fetch"
    /\ result' = Some(None)
    /\ pc' = "transcript_done"
    /\ UNCHANGED <<transcriptVars, frameVars, titleVars, otherVars>>

NextTranscript ==
    \/ ListRaises
    \/ ListEmpty
    \/ ChooseTrack
    \/ FetchReturns
    \/ FetchRaises

SpecTranscript == InitTranscript /\ [][NextTranscript]_vars

\* C19 (as claimed): with prefer_manual, get_transcript never returns an
\* auto-generated transcript and returns None when the video has no manual
\* transcript.
C19_PreferManualOnlyManual ==
    (pc = "transcript_done" /\ prefer_manual) =>
        LET returned == Val(result)
            tracks   == IF IsNone(transcript_list) THEN <<>>
                        ELSE Val(transcript_list)
        IN  /\ ~IsNone(returned) => ~Val(returned).is_generated
            /\ (\A k \in 1..Len(tracks) : tracks[k].is_generated) =>
                   IsNone(returned)

----------------------------------------------------------------------------
(* SpecTitle: generate_ai_title *)

InitTitle ==
    /\ pc = "generate_ai_title"
    /\ title \in Titles
    /\ import_ok \in BOOLEAN
    /\ api_reply \in {None} \cup {Some(r) : r \in Replies}
    /\ cleaned = None
    /\ result = None
    /\ FramesIdle
    /\ TranscriptIdle
    /\ OtherIdle

\* except ImportError: return the original title
ImportFails ==
    /\ pc = "generate_ai_title"
    /\ ~import_ok
    /\ result' = Some(Fallback(title))
    /\ pc' = "title_done"
    /\ UNCHANGED <<titleVars, frameVars, transcriptVars, otherVars>>

\* import anthropic succeeds; the user message is built
ImportSucceeds ==
    /\ pc = "generate_ai_title"
    /\ import_ok
    /\ pc' = "api_call"
    /\ UNCHANGED <<result, titleVars, frameVars, transcriptVars,
                   otherVars>>

\* the client or messages.create raises: except Exception, fall back
ApiRaises ==
    /\ pc = "api_call"
    /\ IsNone(api_reply)
    /\ result' = Some(Fallback(title))
    /\ pc' = "title_done"
    /\ UNCHANGED <<titleVars, frameVars, transcriptVars, otherVars>>

\* cleaned = _clean_title(response.content[0].text)
ApiReplies ==
    /\ pc = "api_call"
    /\ ~IsNone(api_reply)
    /\ cleaned' = Some(clean_title(Val(api_reply)))
    /\ pc' = "validate"
    /\ UNCHANGED <<result, title, import_ok, api_reply, frameVars,
                   transcriptVars, otherVars>>

\* if not _validate_title(cleaned): fall back
ValidationFails ==
    /\ pc = "validate"
    /\ ~validate_title(Val(cleaned))
    /\ result' = Some(Fallback(title))
    /\ pc' = "title_done"
    /\ UNCHANGED <<titleVars, frameVars, transcriptVars, otherVars>>

\* sanitized = sanitize_title(cleaned); fall back if empty, else use it
SanitizeAndReturn ==
    /\ pc = "validate"
    /\ validate_title(Val(cleaned))
    /\ result' = Some(AfterSanitize(title, sanitize_title(Val(cleaned))))
    /\ pc' = "title_done"
    /\ UNCHANGED <<titleVars, frameVars, transcriptVars, otherVars>>

NextTitle ==
    \/ ImportFails
    \/ ImportSucceeds
    \/ ApiRaises
    \/ ApiReplies
    \/ ValidationFails
    \/ SanitizeAndReturn

SpecTitle == InitTitle /\ [][NextTitle]_vars

TitleFails ==
    IF ~import_ok \/ IsNone(api_reply) THEN TRUE
    ELSE LET c == clean_title(Val(api_reply))
         IN  ~validate_title(c) \/ sanitize_title(c) = <<>>

\* C20: generate_ai_title never raises and always returns the input title as
\* original_title; on a failed import, a raising API call, a title failing
\* validation or empty after sanitization it returns used_ai False with
\* ai_title the input title; used_ai is True only for a cleaned title that
\* passed validation and is non-empty after sanitize_title.
C20_TitleFallsBack ==
    /\ pc \in {"generate_ai_title", "api_call", "validate", "title_done"}
    /\ pc = "title_done" =>
           LET r == Val(result)
           IN  /\ r.original_title = title
               /\ TitleFails => (r.used_ai = FALSE /\ r.ai_title = title)
               /\ r.used_ai = TRUE =>
                      /\ ~TitleFails
                      /\ r.ai_title = sanitize_title(Val(cleaned))
                      /\ r.ai_title # <<>>

\* a reply of question marks passes validation and sanitizes to nothing
C20_Witness ==
    /\ pc = "title_done"
    /\ import_ok
    /\ ~IsNone(cleaned)
    /\ validate_title(Val(cleaned))
    /\ sanitize_title(Val(cleaned)) = <<>>
    /\ Val(result) = [ai_title |-> title, original_title |-> title,
                      used_ai |-> FALSE]

----------------------------------------------------------------------------
(* Properties of the output of deduplicate_frames *)

\* the frame paths of the first n input frames that are in the list k
KeptBefore(i, k) == {q \in PathSet(k) : q < i}

\* the nearest kept frame that precedes input frame i
NearestKeptBefore(i, k) ==
    CHOOSE q \in KeptBefore(i, k) : \A r \in KeptBefore(i, k) : r <= q

\* C24: for 2 or more input frames and a numeric threshold, two adjacent
\* kept frames with computed fingerprints have similarity strictly below
\* the threshold, and every dropped frame has similarity >= threshold to the
\* nearest kept frame that precedes it in the input.
C24_OutputSeparated ==
    (Finished /\ Len(frames) >= 2) =>
        LET out == Val(result)
            t   == Val(threshold)
        IN  /\ \A j \in 1..(Len(out) - 1) :
                   (Readable(out[j].path) /\ Readable(out[j + 1].path)) =>
                       (64 - HammingDistance(HashOf(out[j].path),
                                             HashOf(out[j + 1].path))) * 100
                           < t * 64
            /\ \A i \in 1..Len(frames) :
                   frames[i].path \notin PathSet(out) =>
                       /\ KeptBefore(i, out) # {}
                       /\ Readable(i)
                       /\ Readable(NearestKeptBefore(i, out))
                       /\ (64 - HammingDistance(
                                    HashOf(NearestKeptBefore(i, out)),
                                    HashOf(i))) * 100 >= t * 64

\* three readable frames, the second dropped against the first, the third
\* kept against the first
C24_Witness ==
    /\ Finished
    /\ Len(frames) = 3
    /\ \A i \in 1..3 : Readable(i)
    /\ Val(result) = <<frames[1], frames[3]>>
    /\ ~Dissimilar(1, 2, Val(threshold))
    /\ Dissimilar(1, 3, Val(threshold))

\* C25: deduplicate_frames is idempotent: for the same threshold and the
\* same fingerprint outcomes, applied to its own output it returns that
\* output and drops nothing.
C25_Idempotent ==
    Finished =>
        LET out   == Val(result)
            again == DedupFunction(out, phash, Val(threshold))
        IN  /\ again = out
            /\ Len(again) = Len(out)
            /\ PathSet(again) = PathSet(out)

\* a first pass that dropped a frame and kept two, one of them unreadable
C25_Witness ==
    /\ Finished
    /\ Len(frames) = 3
    /\ Len(Val(result)) = 2
    /\ \E j \in 1..2 : ~Readable(Val(result)[j].path)
    /\ DedupFunction(Val(result), phash, Val(threshold)) = Val(result)

\* C26: the returned list is a function of the frames, the fingerprint
\* outcomes and the threshold alone (the same with delete_files True or
\* False, whether or not deletions succeed); with delete_files False no
\* file is deleted; the file of a frame whose fingerprint failed is never
\* deleted.
C26_DeletionDoesNotChangeResult ==
    /\ Finished =>
           Val(result) = DedupFunction(frames, phash, Val(threshold))
    /\ ~delete_files => (files = PathSet(frames) /\ unlinkCalls = <<>>)
    /\ \A i \in 1..Len(frames) :
           IsNone(phash[frames[i].path]) =>
               /\ frames[i].path \in files
               /\ \A c \in 1..Len(unlinkCalls) :
                      unlinkCalls[c] # frames[i].path

\* a duplicate is dropped although its unlink failed, next to an unreadable
\* frame that is kept with its file
C26_Witness ==
    /\ Finished
    /\ delete_files
    /\ Len(frames) = 3
    /\ \E i \in 1..3 : ~Readable(i)
    /\ \E i \in 1..3 :
           /\ frames[i].path \in files
           /\ frames[i].path \notin PathSet(Val(result))
    /\ Val(result) = DedupFunction(frames, phash, Val(threshold))

----------------------------------------------------------------------------
(* cli.py: main and vidcapture_main *)

\* if len(video_urls) > 10 and not yes
ConfirmLimit == 10

\* A URL is its kind (what is_playlist_url / is_video_url say of it) and the
\* number of the video or playlist it names; two URLs are the same string
\* iff they are the same record.
VideoUrl(n) == [kind |-> "video", id |-> n]

PlaylistUrl(n) == [kind |-> "playlist", id |-> n]

OtherUrl == [kind |-> "other", id |-> 0]

is_playlist_url(url) == url.kind = "playlist"

is_video_url(url) == url.kind = "video"

\* expand_playlist: playlist 0 cannot be expanded (VideoError), playlist 3
\* lists a video twice, playlist n lists the videos 1..n
expand_playlist(url) ==
    IF url.id = 0 THEN None
    ELSE IF url.id = 3 THEN Some(<<VideoUrl(2), VideoUrl(1), VideoUrl(2)>>)
    ELSE Some([k \in 1..url.id |-> VideoUrl(k)])

\* the URL arguments the bounded inputs are drawn from
UrlArgs ==
    {VideoUrl(1), VideoUrl(11), VideoUrl(12), PlaylistUrl(10),
     PlaylistUrl(11), PlaylistUrl(3), PlaylistUrl(0), OtherUrl}

FileArgs == {"a.mp4", "b.mp4"}

ArgLists(items) == UNION {[1..n -> items] : n \in 0..MaxArgs}

\* step 1: the arguments, or the clipboard URL when there are none
url_list(us, clip) ==
    IF us # <<>> THEN us
    ELSE IF IsNone(clip) THEN <<>>
    ELSE <<Val(clip)>>

\* step 3: classify and expand the URLs
RECURSIVE ClassifyAndExpand(_)
ClassifyAndExpand(us) ==
    IF us = <<>> THEN <<>>
    ELSE LET url  == Head(us)
             rest == ClassifyAndExpand(Tail(us))
         IN  IF is_playlist_url(url)
             THEN IF IsNone(expand_playlist(url)) THEN rest
                  ELSE Val(expand_playlist(url)) \o rest
             ELSE IF is_video_url(url) THEN <<url>> \o rest
             ELSE rest

\* step 4: for url in video_urls: if url not in seen: seen.add(url);
\* unique_urls.append(url)
RECURSIVE UniqueFrom(_, _)
UniqueFrom(us, seen) ==
    IF us = <<>> THEN <<>>
    ELSE IF Head(us) \in seen THEN UniqueFrom(Tail(us), seen)
    ELSE <<Head(us)>> \o UniqueFrom(Tail(us), seen \cup {Head(us)})

Reverse(us) == [j \in 1..Len(us) |-> us[Len(us) + 1 - j]]

unique_urls_keepLast(us) == Reverse(UniqueFrom(Reverse(us), {}))

unique_urls(us) == UniqueFrom(us, {})

\* step 5: whether click.confirm is called
NeedsConfirm_atLeast(n, y) == n >= ConfirmLimit /\ ~y

NeedsConfirm(n, y) == n > ConfirmLimit /\ ~y

\* what processing one item can end with: the value returned or one of the
\* exceptions process_video / process_local_video document
ItemOutcomes(cmd) ==
    IF cmd = "main" THEN {"ok", "VideoError", "FrameExtractionError"}
    ELSE {"ok", "LocalVideoError", "FrameExtractionError"}

\* the except clause of the batch loop
Catches_noFrameError(cmd) ==
    IF cmd = "main" THEN {"VideoError"} ELSE {"LocalVideoError"}

Catches(cmd) ==
    IF cmd = "main" THEN {"VideoError", "FrameExtractionError"}
    ELSE {"LocalVideoError", "FrameExtractionError"}

\* where control is after an item: in the loop, or out of it by an
\* exception the except clause does not name
AfterItem(cmd, outcome, at) ==
    IF outcome = "ok" \/ outcome \in Catches(cmd) THEN at ELSE "raised"

----------------------------------------------------------------------------
(* SpecCli: the two console commands *)

InitCli ==
    /\ command \in {"main", "vidcapture_main"}
    /\ pc = command
    /\ IF command = "main"
       THEN /\ urls \in ArgLists(UrlArgs)
            /\ clipboard \in {None, Some(PlaylistUrl(11))}
            /\ yes \in BOOLEAN
            /\ cli_files = <<>>
            /\ json_output = FALSE
       ELSE /\ urls = <<>>
            /\ clipboard = None
            /\ yes = FALSE
            /\ cli_files \in ArgLists(FileArgs)
            /\ json_output \in BOOLEAN
    /\ video_urls = <<>>
    /\ confirmed = None
    /\ BatchIdle
    /\ ConfigIdle
    /\ LaterIdle
    /\ result = None
    /\ FramesIdle
    /\ TranscriptIdle
    /\ TitleIdle

\* main, step 1: no argument and nothing on the clipboard
NoUrls ==
    /\ pc = "main"
    /\ url_list(urls, clipboard) = <<>>
    /\ pc' = "click_exception"
    /\ UNCHANGED <<result, frameVars, transcriptVars, titleVars, cliVars,
                   configVars, laterVars>>

\* main, steps 1-3: video_urls holds the expanded URLs
ExpandUrls ==
    /\ pc = "main"
    /\ url_list(urls, clipboard) # <<>>
    /\ video_urls' = ClassifyAndExpand(url_list(urls, clipboard))
    /\ pc' = "classified"
    /\ UNCHANGED <<result, frameVars, transcriptVars, titleVars, configVars,
                   laterVars, command,
                   urls, clipboard, yes, cli_files, json_output, confirmed,
                   batchVars>>

\* if not video_urls: raise click.ClickException
NoValidUrls ==
    /\ pc = "classified"
    /\ video_urls = <<>>
    /\ pc' = "click_exception"
    /\ UNCHANGED <<result, frameVars, transcriptVars, titleVars, cliVars,
                   configVars, laterVars>>

\* main, step 4: video_urls = unique_urls
DeduplicateUrls ==
    /\ pc = "classified"
    /\ video_urls # <<>>
    /\ video_urls' = unique_urls(video_urls)
    /\ pc' = "confirm"
    /\ UNCHANGED <<result, frameVars, transcriptVars, titleVars, configVars,
                   laterVars, command,
                   urls, clipboard, yes, cli_files, json_output, confirmed,
                   batchVars>>

\* main, step 5: no confirmation is needed
SkipConfirm ==
    /\ pc = "confirm"
    /\ ~NeedsConfirm(Len(video_urls), yes)
    /\ item_index' = 1
    /\ pc' = "process_videos"
    /\ UNCHANGED <<result, frameVars, transcriptVars, titleVars, configVars,
                   laterVars, command,
                   urls, clipboard, yes, cli_files, json_output, video_urls,
                   confirmed, success_count, error_count, attempted,
                   results>>

\* click.confirm("Continue?") is answered
Confirm(answer) ==
    /\ pc = "confirm"
    /\ NeedsConfirm(Len(video_urls), yes)
    /\ confirmed' = Some(answer)
    /\ item_index' = IF answer THEN 1 ELSE item_index
    /\ pc' = IF answer THEN "process_videos" ELSE "click_exception"
    /\ UNCHANGED <<result, frameVars, transcriptVars, titleVars, configVars,
                   laterVars, command,
                   urls, clipboard, yes, cli_files, json_output, video_urls,
                   success_count, error_count, attempted, results>>

ConfirmAccepted == Confirm(TRUE)

\* if not click.confirm(...): raise click.ClickException("Cancelled by user.")
ConfirmDeclined == Confirm(FALSE)

\* one iteration of a batch loop on item, ending with outcome
BatchStep(item, outcome) ==
    /\ outcome \in ItemOutcomes(command)
    /\ attempted' = Append(attempted, item)
    /\ item_index' = item_index + 1
    /\ pc' = AfterItem(command, outcome, pc)
    /\ success_count' = IF outcome = "ok" THEN success_count + 1
                        ELSE success_count
    /\ error_count' = IF AfterItem(command, outcome, pc) = pc
                         /\ outcome # "ok"
                      THEN error_count + 1
                      ELSE error_count
    /\ results' = IF json_output /\ AfterItem(command, outcome, pc) = pc
                  THEN Append(results, IF outcome = "ok" THEN "success"
                                       ELSE "error")
                  ELSE results

\* main, step 6: process_video on the next URL
ProcessVideo(outcome) ==
    /\ pc = "process_videos"
    /\ item_index <= Len(video_urls)
    /\ BatchStep(video_urls[item_index], outcome)
    /\ UNCHANGED <<result, frameVars, transcriptVars, titleVars, configVars,
                   laterVars, command,
                   urls, clipboard, yes, cli_files, json_output, video_urls,
                   confirmed>>

VideoSucceeds == ProcessVideo("ok")

VideoFails == \E e \in ItemOutcomes("main") \ {"ok"} : ProcessVideo(e)

\* main, step 7: the summary
VideosDone ==
    /\ pc = "process_videos"
    /\ item_index > Len(video_urls)
    /\ pc' = "returned"
    /\ UNCHANGED <<result, frameVars, transcriptVars, titleVars, cliVars,
                   configVars, laterVars>>

\* vidcapture_main: if not files, with --json: print the error and return
NoFilesJson ==
    /\ pc = "vidcapture_main"
    /\ cli_files = <<>>
    /\ json_output
    /\ pc' = "returned"
    /\ UNCHANGED <<result, frameVars, transcriptVars, titleVars, cliVars,
                   configVars, laterVars>>

\* vidcapture_main: if not files: raise click.ClickException
NoFiles ==
    /\ pc = "vidcapture_main"
    /\ cli_files = <<>>
    /\ ~json_output
    /\ pc' = "click_exception"
    /\ UNCHANGED <<result, frameVars, transcriptVars, titleVars, cliVars,
                   configVars, laterVars>>

\* vidcapture_main: the counters are set and the loop is entered
StartFiles ==
    /\ pc = "vidcapture_main"
    /\ cli_files # <<>>
    /\ item_index' = 1
    /\ pc' = "process_files"
    /\ UNCHANGED <<result, frameVars, transcriptVars, titleVars, configVars,
                   laterVars, command,
                   urls, clipboard, yes, cli_files, json_output, video_urls,
                   confirmed, success_count, error_count, attempted,
                   results>>

\* vidcapture_main: process_local_video on the next file
ProcessFile(outcome) ==
    /\ pc = "process_files"
    /\ item_index <= Len(cli_files)
    /\ BatchStep(cli_files[item_index], outcome)
    /\ UNCHANGED <<result, frameVars, transcriptVars, titleVars, configVars,
                   laterVars, command,
                   urls, clipboard, yes, cli_files, json_output, video_urls,
                   confirmed>>

FileSucceeds == ProcessFile("ok")

FileFails ==
    \E e \in ItemOutcomes("vidcapture_main") \ {"ok"} : ProcessFile(e)

\* vidcapture_main: the JSON output or the summary
FilesDone ==
    /\ pc = "process_files"
    /\ item_index > Len(cli_files)
    /\ pc' = "returned"
    /\ UNCHANGED <<result, frameVars, transcriptVars, titleVars, cliVars,
                   configVars, laterVars>>

NextCli ==
    \/ NoUrls
    \/ ExpandUrls
    \/ NoValidUrls
    \/ DeduplicateUrls
    \/ SkipConfirm
    \/ ConfirmAccepted
    \/ ConfirmDeclined
    \/ VideoSucceeds
    \/ VideoFails
    \/ VideosDone
    \/ NoFilesJson
    \/ NoFiles
    \/ StartFiles
    \/ FileSucceeds
    \/ FileFails
    \/ FilesDone

SpecCli == InitCli /\ [][NextCli]_vars

----------------------------------------------------------------------------
(* Properties of the console commands *)

NoDuplicates(us) ==
    \A j, k \in 1..Len(us) : j # k => us[j] # us[k]

Elements(us) == {us[j] : j \in 1..Len(us)}

\* the position at which u first occurs in us
FirstIndex(us, u) ==
    CHOOSE j \in 1..Len(us) :
        us[j] = u /\ \A k \in 1..(j - 1) : us[k] # u

\* out is us with every repeated occurrence removed
FirstOccurrences(us, out) ==
    /\ NoDuplicates(out)
    /\ Elements(out) = Elements(us)
    /\ \A j, k \in 1..Len(out) :
           j < k => FirstIndex(us, out[j]) < FirstIndex(us, out[k])

\* C21: the list of video URLs to process holds each URL at most once, in
\* order of first occurrence: step 4 of main removes the duplicates that
\* repeated arguments and playlist expansion bring, keeping the relative
\* order of the first occurrences, and the loop processes that list.
C21_UniqueInFirstOccurrenceOrder ==
    [][/\ (pc = "classified" /\ pc' = "confirm") =>
              FirstOccurrences(video_urls, video_urls')
       /\ (command = "main"
             /\ pc' \in {"confirm", "process_videos", "returned"}) =>
              /\ NoDuplicates(video_urls')
              /\ NoDuplicates(attempted')]_vars

\* a playlist that lists a video twice, followed by a video it contains
C21_Witness ==
    /\ pc = "confirm"
    /\ urls = <<PlaylistUrl(3), VideoUrl(1)>>
    /\ video_urls = <<VideoUrl(2), VideoUrl(1)>>

\* C23: with more than 10 unique videos and without --yes no video is
\* processed before the user has confirmed, and none at all if the user
\* declines; with 10 or fewer videos, or with --yes, nothing is asked.
C23_ConfirmBeforeProcessing ==
    command = "main" =>
        /\ (attempted # <<>> /\ Len(video_urls) > 10 /\ ~yes) =>
               confirmed = Some(TRUE)
        /\ confirmed = Some(FALSE) =>
               (attempted = <<>> /\ pc = "click_exception")
        /\ ~IsNone(confirmed) => (Len(video_urls) > 10 /\ ~yes)
        /\ pc = "confirm" => (attempted = <<>> /\ IsNone(confirmed))

\* eleven unique videos, the user declines
C23_Witness ==
    /\ command = "main"
    /\ pc = "click_exception"
    /\ Len(video_urls) = 11
    /\ ~yes
    /\ confirmed = Some(FALSE)
    /\ attempted = <<>>

\* the items of the batch loop of the running command
BatchItems == IF command = "main" THEN video_urls ELSE cli_files

\* C28: in the batch loops of main and vidcapture_main an item that fails
\* with VideoError, LocalVideoError or FrameExtractionError does not stop
\* the loop: every item is attempted exactly once, in order, and at the end
\* success_count + error_count is the number of items.
C28_BatchContinuesAfterError ==
    /\ pc # "raised"
    /\ pc \in {"process_videos", "process_files"} =>
           /\ item_index \in 1..(Len(BatchItems) + 1)
           /\ attempted = SubSeq(BatchItems, 1, item_index - 1)
           /\ success_count + error_count = item_index - 1
    /\ (pc = "returned" /\ BatchItems # <<>>) =>
           /\ attempted = BatchItems
           /\ success_count + error_count = Len(BatchItems)

\* two files, the first fails and the second is processed
C28_Witness ==
    /\ command = "vidcapture_main"
    /\ pc = "returned"
    /\ Len(cli_files) = 2
    /\ results = <<"error", "success">>
    /\ error_count = 1
    /\ success_count = 1

----------------------------------------------------------------------------
(* config.py: get_config_for_defaults, config_was_auto_created,            *)
(* clear_config_cache                                                      *)

\* DEFAULT_CONFIG, the settings followed here
DEFAULT_CONFIG == [vault |-> ".", interval |-> 15]

\* DEFAULT_CONFIG_YAML, the text written to a missing file
DEFAULT_CONFIG_YAML == "vault: .\ninterval: 15"

\* texts the config file may hold
FileTexts ==
    {DEFAULT_CONFIG_YAML, "interval: 30", "vault: ~/notes", "", "{",
     "just text"}

\* what yaml.safe_load(f) or {} gives: a mapping, an error (YAMLError), or
\* a value that is not a mapping
LoadKind(text) ==
    IF text = "{" THEN "error"
    ELSE IF text = "just text" THEN "not_mapping"
    ELSE "mapping"

\* the mapping loaded from the file, as the overrides it holds
FileInterval(text) ==
    IF text = "interval: 30" THEN Some(30)
    ELSE IF text = DEFAULT_CONFIG_YAML THEN Some(15)
    ELSE None

FileVault(text) ==
    IF text = "vault: ~/notes" THEN Some("~/notes")
    ELSE IF text = DEFAULT_CONFIG_YAML THEN Some(".")
    ELSE None

\* _merge_dicts(_cached_config, file_config)
MergeFile(config, text) ==
    [vault    |-> IF IsNone(FileVault(text)) THEN config.vault
                  ELSE Val(FileVault(text)),
     interval |-> IF IsNone(FileInterval(text)) THEN config.interval
                  ELSE Val(FileInterval(text))]

\* str(Path(vault).expanduser())
ExpandUser(path) == IF path = "~/notes" THEN "/home/user/notes" ELSE path

ExpandVault(config) == [config EXCEPT !.vault = ExpandUser(@)]

\* if _cached_config is None
MustLoad_always(cached) == TRUE

MustLoad(cached) == IsNone(cached)

\* what a load found and did: whether the file was absent, and whether it
\* was created
LoadRecord(absent, created) == [absent |-> absent, created |-> created]

----------------------------------------------------------------------------
(* SpecConfig: calls to the config module, and the file changing under it *)

InitConfig ==
    /\ pc = "config"
    /\ cached_config = None
    /\ config_was_created = FALSE
    /\ file_exists \in BOOLEAN
    /\ file_content \in (IF file_exists THEN FileTexts ELSE {""})
    /\ writable \in BOOLEAN
    /\ loads = 0
    /\ first_load = None
    /\ calls = 0
    /\ last_call = ""
    /\ result = None
    /\ FramesIdle
    /\ TranscriptIdle
    /\ TitleIdle
    /\ CliIdle
    /\ LaterIdle

\* a call of get_config_for_defaults
Called(name) ==
    /\ pc = "config"
    /\ calls < MaxCalls
    /\ calls' = calls + 1
    /\ last_call' = name
    /\ UNCHANGED <<pc, frameVars, transcriptVars, titleVars, cliVars,
                   laterVars>>

\* the cache is set: return _cached_config
GetCached ==
    /\ Called("get_config_for_defaults")
    /\ ~MustLoad(cached_config)
    /\ result' = Some(Val(cached_config))
    /\ UNCHANGED <<cached_config, config_was_created, file_exists,
                   file_content, writable, loads, first_load>>

\* the file is missing and is created with the default text
LoadCreates ==
    /\ Called("get_config_for_defaults")
    /\ MustLoad(cached_config)
    /\ ~file_exists
    /\ writable
    /\ file_exists' = TRUE
    /\ file_content' = DEFAULT_CONFIG_YAML
    /\ config_was_created' = TRUE
    /\ cached_config' = Some(ExpandVault(DEFAULT_CONFIG))
    /\ result' = Some(ExpandVault(DEFAULT_CONFIG))
    /\ loads' = loads + 1
    /\ first_load' = Some(LoadRecord(TRUE, TRUE))
    /\ UNCHANGED writable

\* the file is missing and config_path.write_text raises: the exception
\* leaves the function, after _cached_config was set to the defaults
LoadCreateFails ==
    /\ Called("get_config_for_defaults")
    /\ MustLoad(cached_config)
    /\ ~file_exists
    /\ ~writable
    /\ cached_config' = Some(DEFAULT_CONFIG)
    /\ result' = None
    /\ loads' = loads + 1
    /\ first_load' = Some(LoadRecord(TRUE, FALSE))
    /\ UNCHANGED <<config_was_created, file_exists, file_content, writable>>

\* the file exists and holds a mapping: it is merged over the defaults
LoadReads ==
    /\ Called("get_config_for_defaults")
    /\ MustLoad(cached_config)
    /\ file_exists
    /\ LoadKind(file_content) = "mapping"
    /\ cached_config' = Some(ExpandVault(MergeFile(DEFAULT_CONFIG,
                                                   file_content)))
    /\ result' = Some(ExpandVault(MergeFile(DEFAULT_CONFIG, file_content)))
    /\ loads' = loads + 1
    /\ first_load' = Some(LoadRecord(FALSE, FALSE))
    /\ UNCHANGED <<config_was_created, file_exists, file_content, writable>>

\* except (yaml.YAMLError, OSError): pass
LoadReadError ==
    /\ Called("get_config_for_defaults")
    /\ MustLoad(cached_config)
    /\ file_exists
    /\ LoadKind(file_content) = "error"
    /\ cached_config' = Some(ExpandVault(DEFAULT_CONFIG))
    /\ result' = Some(ExpandVault(DEFAULT_CONFIG))
    /\ loads' = loads + 1
    /\ first_load' = Some(LoadRecord(FALSE, FALSE))
    /\ UNCHANGED <<config_was_created, file_exists, file_content, writable>>

\* the file holds no mapping: _merge_dicts raises AttributeError, which
\* leaves the function, after _cached_config was set to the defaults
LoadNotMapping ==
    /\ Called("get_config_for_defaults")
    /\ MustLoad(cached_config)
    /\ file_exists
    /\ LoadKind(file_content) = "not_mapping"
    /\ cached_config' = Some(DEFAULT_CONFIG)
    /\ result' = None
    /\ loads' = loads + 1
    /\ first_load' = Some(LoadRecord(FALSE, FALSE))
    /\ UNCHANGED <<config_was_created, file_exists, file_content, writable>>

\* config_was_auto_created()
WasAutoCreated ==
    /\ Called("config_was_auto_created")
    /\ result' = Some(config_was_created)
    /\ UNCHANGED <<cached_config, config_was_created, file_exists,
                   file_content, writable, loads, first_load>>

\* clear_config_cache()
ClearCache ==
    /\ Called("clear_config_cache")
    /\ cached_config' = None
    /\ config_was_created' = FALSE
    /\ loads' = 0
    /\ first_load' = None
    /\ result' = None
    /\ UNCHANGED <<file_exists, file_content, writable>>

\* between two calls the user removes the config file
FileRemoved ==
    /\ pc = "config"
    /\ file_exists
    /\ file_exists' = FALSE
    /\ file_content' = ""
    /\ UNCHANGED <<pc, result, cached_config, config_was_created, writable,
                   loads, first_load, calls, last_call, frameVars,
                   transcriptVars, titleVars, cliVars, laterVars>>

NextConfig ==
    \/ GetCached
    \/ LoadCreates
    \/ LoadCreateFails
    \/ LoadReads
    \/ LoadReadError
    \/ LoadNotMapping
    \/ WasAutoCreated
    \/ ClearCache
    \/ FileRemoved

SpecConfig == InitConfig /\ [][NextConfig]_vars

\* C27 (as claimed): the config file is read or created at most once
\* between calls of clear_config_cache, and config_was_auto_created() is
\* True iff the file was absent at that first load.
C27_CreatedIffAbsent ==
    /\ loads <= 1
    /\ config_was_created <=>
           (IF IsNone(first_load) THEN FALSE ELSE Val(first_load).absent)

\* a step that is a call of the function name
IsCall(name) == calls' = calls + 1 /\ last_call' = name

\* C27 (amended): between two calls of clear_config_cache the config file
\* is read or created at most once; once the cache is set a call returns
\* the cached config and touches neither the file nor the globals;
\* config_was_auto_created() is True iff the file was absent at that load
\* and was created by it; clear_config_cache resets the cache and the flag,
\* and the next call loads again.
C27_LoadedOncePerClear ==
    [][/\ loads' <= 1
       /\ config_was_created' <=>
              (IF IsNone(first_load') THEN FALSE
               ELSE Val(first_load').absent /\ Val(first_load').created)
       /\ (IsCall("get_config_for_defaults") /\ ~IsNone(cached_config)) =>
              /\ result' = cached_config
              /\ UNCHANGED <<cached_config, config_was_created,
                             file_exists, file_content, loads>>
       /\ IsCall("config_was_auto_created") =>
              result' = Some(config_was_created)
       /\ IsCall("clear_config_cache") =>
              (IsNone(cached_config') /\ ~config_was_created'
               /\ loads' = 0)
       /\ (IsCall("get_config_for_defaults") /\ IsNone(cached_config)) =>
              /\ loads' = 1
              /\ ~IsNone(cached_config')
              /\ Val(first_load').absent = ~file_exists
              /\ Val(first_load').created = (~file_exists /\ file_exists')
      ]_vars

\* the file was created by a first load, removed, and a later call returned
\* the cached config without creating it again
C27_Witness ==
    /\ last_call = "get_config_for_defaults"
    /\ calls >= 2
    /\ loads = 1
    /\ config_was_created
    /\ ~file_exists
    /\ result = cached_config

----------------------------------------------------------------------------
(* frames.py: extract_frames_stream, extract_frames_with_timestamps *)

Extractors == {"extract_frames_stream", "extract_frames_with_timestamps"}

\* values of the argument interval (the defaults of the CLI and of the
\* function)
Intervals == {15, 30}

\* values of the argument max_frames
FrameLimits == {None} \cup {Some(n) : n \in 0..MaxFiles}

\* if max_frames and len(frames) >= max_frames: the limit is applied only
\* when max_frames is truthy (neither None nor 0)
LimitReached(limit, n) ==
    IF IsNone(limit) THEN FALSE
    ELSE Val(limit) # 0 /\ n >= Val(limit)

----------------------------------------------------------------------------
(* SpecExtract: the collection loop of the two stream extractors *)

InitExtract ==
    /\ pc = "extract"
    /\ extractor \in Extractors
    /\ max_frames \in FrameLimits
    /\ frame_interval \in Intervals
    /\ \E n \in 0..(MaxFiles + 1) : frame_files = [k \in 1..n |-> k]
    /\ frames = <<>>
    /\ idx = 0
    /\ result = None
    /\ transcript = None
    /\ grouped = <<>>
    /\ embeds = <<>>
    /\ phash = <<>>
    /\ no_dedup = FALSE
    /\ dedup_threshold = 0
    /\ threshold = None
    /\ delete_files = FALSE
    /\ kept = <<>>
    /\ prev_hash = None
    /\ files = {}
    /\ unlinkCalls = <<>>
    /\ hashCalls = <<>>
    /\ TranscriptIdle
    /\ TitleIdle
    /\ CliIdle
    /\ ConfigIdle
    /\ LocalIdle

\* ffmpeg is missing, the stream URL cannot be had, or ffmpeg fails or
\* times out: FrameExtractionError
DecodeFails ==
    /\ pc = "extract"
    /\ pc' = "frame_extraction_error"
    /\ UNCHANGED <<frames, idx, result, transcript, grouped, embeds,
                   dedupVars, transcriptVars, titleVars, cliVars,
                   configVars, laterVars>>

\* ffmpeg has run: frames = [], frame_files = sorted(output_dir.glob(...))
CollectFiles ==
    /\ pc = "extract"
    /\ frames' = <<>>
    /\ idx' = 1
    /\ pc' = "collect"
    /\ UNCHANGED <<result, transcript, grouped, embeds, dedupVars,
                   transcriptVars, titleVars, cliVars, configVars,
                   laterVars>>

\* one iteration of the loop over enumerate(frame_files); stop says whether
\* it ends with the break
CollectFrame(stop) ==
    /\ pc = "collect"
    /\ idx <= Len(frame_files)
    /\ LET frame == FrameInfo(frame_files[idx], (idx - 1) * frame_interval)
       IN  /\ frames' = Append(frames, frame)
           /\ stop = LimitReached(max_frames, Len(frames) + 1)
           /\ IF stop
              THEN /\ result' = Some(Append(frames, frame))
                   /\ pc' = "extracted"
                   /\ UNCHANGED idx
              ELSE /\ idx' = idx + 1
                   /\ UNCHANGED <<pc, result>>
    /\ UNCHANGED <<transcript, grouped, embeds, dedupVars, transcriptVars,
                   titleVars, cliVars, configVars, laterVars>>

\* frames.append(FrameInfo(...)) and the loop goes on
AppendFrame == CollectFrame(FALSE)

\* frames.append(FrameInfo(...)), the limit is reached: break; return frames
AppendAndBreak == CollectFrame(TRUE)

\* the loop has run through all files: return frames
ReturnFrames ==
    /\ pc = "collect"
    /\ idx > Len(frame_files)
    /\ result' = Some(frames)
    /\ pc' = "extracted"
    /\ UNCHANGED <<frames, idx, transcript, grouped, embeds, dedupVars,
                   transcriptVars, titleVars, cliVars, configVars,
                   laterVars>>

NextExtract ==
    \/ DecodeFails
    \/ CollectFiles
    \/ AppendFrame
    \/ AppendAndBreak
    \/ ReturnFrames

SpecExtract == InitExtract /\ [][NextExtract]_vars

\* C22 (as claimed): for every max_frames >= 0 that is given (not None) the
\* extractors return at most max_frames frames, whatever the number of
\* frame files found.
C22_AtMostMaxFrames ==
    (pc = "extracted" /\ ~IsNone(max_frames)) =>
        Len(Val(result)) <= Val(max_frames)

----------------------------------------------------------------------------
(* cli.py: process_local_video, the images directory; local.py:            *)
(* LocalVideoMetadata                                                      *)

\* suffix = 2
FirstSuffix == 2

\* metadata.file_path.stem and metadata._base_title of the video processed
LocalStem == "talk"

LocalBaseTitle == "Talk"

\* LocalVideoMetadata.identifier: f"{base}-{suffix}" if suffix > 0 else base
Identifier(stem, sfx) == IF sfx > 0 THEN <<stem, "-", sfx>> ELSE <<stem>>

\* LocalVideoMetadata.title: f"{base_title} ({suffix})" if suffix > 0
LocalTitle(base, sfx) ==
    IF sfx > 0 THEN <<base, " (", sfx, ")">> ELSE <<base>>

\* f"{metadata.file_path.stem}-{suffix}", the name the while loop tests
SuffixedName(stem, sfx) == <<stem, "-", sfx>>

\* the directory names under images/ that may exist before the call
ImagesDirNames ==
    {<<LocalStem>>}
        \cup {SuffixedName(LocalStem, n) : n \in FirstSuffix..MaxSuffix}

\* (output_dir / 'images' / name).exists()
DirExists_onlyBase(name, dirs) == name = <<LocalStem>> /\ name \in dirs

DirExists(name, dirs) == name \in dirs

----------------------------------------------------------------------------
(* SpecLocal: process_local_video up to the extraction of the frames *)

InitLocal ==
    /\ pc = "process_local_video"
    /\ dirs_before \in SUBSET ImagesDirNames
    /\ images_dirs = dirs_before
    /\ suffix = 0
    /\ identifier_suffix = 0
    /\ frames_dir = None
    /\ result = None
    /\ FramesIdle
    /\ TranscriptIdle
    /\ TitleIdle
    /\ CliIdle
    /\ ConfigIdle
    /\ ExtractIdle

\* frames_dir does not exist: it is used as it is
UseIdentifier ==
    /\ pc = "process_local_video"
    /\ ~DirExists(Identifier(LocalStem, identifier_suffix), images_dirs)
    /\ frames_dir' = Some(Identifier(LocalStem, identifier_suffix))
    /\ pc' = "mkdir"
    /\ UNCHANGED <<result, dirs_before, images_dirs, suffix,
                   identifier_suffix, frameVars, transcriptVars, titleVars,
                   cliVars, configVars, extractVars>>

\* if frames_dir.exists(): suffix = 2
StartSearch ==
    /\ pc = "process_local_video"
    /\ DirExists(Identifier(LocalStem, identifier_suffix), images_dirs)
    /\ frames_dir' = Some(Identifier(LocalStem, identifier_suffix))
    /\ suffix' = FirstSuffix
    /\ pc' = "search"
    /\ UNCHANGED <<result, dirs_before, images_dirs, identifier_suffix,
                   frameVars, transcriptVars, titleVars, cliVars,
                   configVars, extractVars>>

\* while (images / f"{stem}-{suffix}").exists(): suffix += 1
SearchNext ==
    /\ pc = "search"
    /\ DirExists(SuffixedName(LocalStem, suffix), images_dirs)
    /\ suffix' = suffix + 1
    /\ UNCHANGED <<pc, result, dirs_before, images_dirs, identifier_suffix,
                   frames_dir, frameVars, transcriptVars, titleVars,
                   cliVars, configVars, extractVars>>

\* the loop ends: metadata._identifier_suffix = suffix; frames_dir = ...
SearchFound ==
    /\ pc = "search"
    /\ ~DirExists(SuffixedName(LocalStem, suffix), images_dirs)
    /\ identifier_suffix' = suffix
    /\ frames_dir' = Some(Identifier(LocalStem, suffix))
    /\ pc' = "mkdir"
    /\ UNCHANGED <<result, dirs_before, images_dirs, suffix, frameVars,
                   transcriptVars, titleVars, cliVars, configVars,
                   extractVars>>

\* frames_dir.mkdir(parents=True, exist_ok=True); the frames are extracted
\* into frames_dir
WriteFrames ==
    /\ pc = "mkdir"
    /\ images_dirs' = images_dirs \cup {Val(frames_dir)}
    /\ result' = Some([identifier |-> Identifier(LocalStem,
                                                 identifier_suffix),
                       title |-> LocalTitle(LocalBaseTitle,
                                            identifier_suffix)])
    /\ pc' = "local_written"
    /\ UNCHANGED <<dirs_before, suffix, identifier_suffix, frames_dir,
                   frameVars, transcriptVars, titleVars, cliVars,
                   configVars, extractVars>>

NextLocal ==
    \/ UseIdentifier
    \/ StartSearch
    \/ SearchNext
    \/ SearchFound
    \/ WriteFrames

SpecLocal == InitLocal /\ [][NextLocal]_vars /\ WF_vars(NextLocal)

\* the directory the frames are written into is new, and when images/<stem>
\* existed it is images/<stem>-n for the smallest n >= 2 that did not exist,
\* the suffix the identifier and the title carry
FreshDirectory ==
    pc \in {"mkdir", "local_written"} =>
        LET dir == Val(frames_dir)
            n   == identifier_suffix
        IN  /\ dir \notin dirs_before
            /\ <<"talk">> \notin dirs_before => (n = 0 /\ dir = <<"talk">>)
            /\ <<"talk">> \in dirs_before =>
                   /\ n >= 2
                   /\ dir = <<"talk", "-", n>>
                   /\ \A k \in 2..(n - 1) :
                          <<"talk", "-", k>> \in dirs_before
            /\ pc = "local_written" =>
                   /\ images_dirs = dirs_before \cup {dir}
                   /\ Val(result).identifier = dir
                   /\ Val(result).title =
                          (IF n = 0 THEN <<"Talk">>
                           ELSE <<"Talk", " (", n, ")">>)

\* C29: process_local_video never writes frames into an images directory
\* that already existed: if images/<stem> exists it takes the smallest
\* n >= 2 for which images/<stem>-n does not exist, the search ends, and
\* the identifier and the title of the metadata carry that suffix.
C29_FreshImagesDirectory ==
    /\ []FreshDirectory
    /\ <>(pc = "local_written")

\* images/talk, images/talk-2 and images/talk-4 existed: talk-3 is taken
C29_Witness ==
    /\ pc = "local_written"
    /\ dirs_before = {<<"talk">>, <<"talk", "-", 2>>, <<"talk", "-", 4>>}
    /\ frames_dir = Some(<<"talk", "-", 3>>)
    /\ identifier_suffix = 3
    /\ Val(result).title = <<"Talk", " (", 3, ")">>

====
